---- MODULE Spec2Model ----
(***************************************************************************)
(* c2chapel (tools/c2chapel/c2chapel.py): translation of a parsed C        *)
(* declaration tree into Chapel extern declarations.                       *)
(*                                                                         *)
(* The declaration tree is a value of nested records, one record per       *)
(* pycparser node, with the node class in the field "node".  The output    *)
(* (sys.stdout) is the sequence "out" of printed items: one record per     *)
(* print call, holding the parts the printed string is concatenated from.  *)
(* A run visits the children of the FileAST one by one (action visit) and  *)
(* then runs handleTypedefs (action handleTypedefs).  An exception that    *)
(* nothing catches ends the run: pc = "aborted".                           *)
(***************************************************************************)
EXTENDS Integers, Sequences, FiniteSets, TLC

VARIABLES
    ast,         \* the children of the FileAST (the input)
    ignores,     \* findIgnores(): typedef names of the fake headers
    noComments,  \* --no-comments
    lines,       \* the lines of the file given to c2chapel
    pos,         \* index of the next child of the FileAST to visit
    pc,          \* "defines", "walk", "typedefs", "done", "aborted"
    typeDefs,    \* dict: name -> Typedef node or None
    foundTypes,  \* set of names
    out          \* what has been printed so far

vars == <<ast, ignores, noComments, lines, pos, pc, typeDefs, foundTypes, out>>

-----------------------------------------------------------------------------
(* Python values *)

\* None where a node (or a list) is expected
None == [node |-> "None"]

\* None where a string is expected (a name that is None, a type name None)
NoneStr == "<None>"

\* the value of an expression whose evaluation raised an exception
Raised == "<exception>"

\* a Python list held in a node field that may also be None
List(items) == [node |-> "list", items |-> items]

-----------------------------------------------------------------------------
(* pycparser nodes *)

IdentifierType(names) == [node |-> "IdentifierType", names |-> names]

TypeDecl(declname, quals, type) ==
    [node |-> "TypeDecl", declname |-> declname, quals |-> quals, type |-> type]

PtrDecl(quals, type) == [node |-> "PtrDecl", quals |-> quals, type |-> type]

ArrayDecl(type) == [node |-> "ArrayDecl", type |-> type]

FuncDecl(args, type) == [node |-> "FuncDecl", args |-> args, type |-> type]

ParamList(params) == [node |-> "ParamList", params |-> params]

EllipsisParam == [node |-> "EllipsisParam"]

Typename(type) == [node |-> "Typename", name |-> NoneStr, type |-> type]

Decl(name, type, init) ==
    [node |-> "Decl", name |-> name, type |-> type, init |-> init]

Struct(name, decls) == [node |-> "Struct", name |-> name, decls |-> decls]

Union(name, decls) == [node |-> "Union", name |-> name, decls |-> decls]

Enum(name, values) == [node |-> "Enum", name |-> name, values |-> values]

Typedef(name, type) == [node |-> "Typedef", name |-> name, type |-> type]

FuncDef(decl) == [node |-> "FuncDef", decl |-> decl]

Pragma == [node |-> "Pragma"]

Constant == [node |-> "Constant"]

\* pycparserext's node of a GNU __typeof__(...) type specifier
TypeOfDeclaration == [node |-> "TypeOfDeclaration"]

-----------------------------------------------------------------------------
(* The global tables *)

VARARGS_STR == "c__varargs ..."

\* the dictionary c2chapel after lines 63-109 have run; the keys ending in
\* "long" are copied with " int" appended (lines 98-101) and the
\* [u]int<8,16,32,64>_t keys are added by the loop of lines 103-109
c2chapel ==
    [n \in {"double", "float", "char", "void", "int", "unsigned", "unsigned int",
            "long", "unsigned long", "long long", "unsigned long long",
            "signed char", "unsigned char", "short", "unsigned short",
            "intptr_t", "uintptr_t", "ptrdiff_t", "ssize_t", "size_t", "wchar_t",
            "long double", "signed short", "signed int", "signed long long",
            "signed long", "FILE",
            "long int", "unsigned long int", "long long int",
            "unsigned long long int", "signed long long int", "signed long int",
            "int8_t", "uint8_t", "int16_t", "uint16_t",
            "int32_t", "uint32_t", "int64_t", "uint64_t"} |->
        CASE n = "double" -> "c_double"
          [] n = "float" -> "c_float"
          [] n = "char" -> "c_char"
          [] n = "void" -> ""
          [] n = "int" -> "c_int"
          [] n \in {"unsigned", "unsigned int"} -> "c_uint"
          [] n \in {"long", "signed long", "long int", "signed long int"} -> "c_long"
          [] n \in {"unsigned long", "unsigned long int"} -> "c_ulong"
          [] n \in {"long long", "long double", "signed long long",
                    "long long int", "signed long long int"} -> "c_longlong"
          [] n \in {"unsigned long long", "unsigned long long int"} -> "c_ulonglong"
          [] n = "signed char" -> "c_schar"
          [] n = "unsigned char" -> "c_uchar"
          [] n \in {"short", "signed short"} -> "c_short"
          [] n = "unsigned short" -> "c_ushort"
          [] n = "intptr_t" -> "c_intptr"
          [] n = "uintptr_t" -> "c_uintptr"
          [] n = "ptrdiff_t" -> "c_ptrdiff"
          [] n = "ssize_t" -> "c_ssize_t"
          [] n = "size_t" -> "c_size_t"
          [] n = "wchar_t" -> "c_wchar_t"
          [] n = "signed int" -> "c_int"
          [] n = "FILE" -> "c_FILE"
          [] n = "int8_t" -> "int(8)"
          [] n = "uint8_t" -> "uint(8)"
          [] n = "int16_t" -> "int(16)"
          [] n = "uint16_t" -> "uint(16)"
          [] n = "int32_t" -> "int(32)"
          [] n = "uint32_t" -> "uint(32)"
          [] n = "int64_t" -> "int(64)"
          [] n = "uint64_t" -> "uint(64)"]

chapelKeywords ==
    {"align", "as", "atomic", "begin", "break", "by", "class",
     "cobegin", "coforall", "config", "const", "continue", "delete", "dmapped", "do",
     "domain", "else", "enum", "except", "export", "extern", "for", "forall", "if",
     "in", "index", "inline", "inout", "iter", "label", "lambda", "let", "local",
     "module", "new",
     "nil", "noinit", "on", "only", "otherwise", "out", "param", "private", "proc",
     "public", "record", "reduce", "ref", "require", "return", "scan", "select",
     "serial", "sparse", "subdomain", "sync", "then", "type", "union", "use",
     "var", "when", "where", "while", "with", "yield", "zip", "string", "bytes",
     "locale"}

-----------------------------------------------------------------------------
(* Strings *)

\* a + b + c where b may be None (TypeError) or may itself have raised
Cat3(a, b, c) == IF b \in {Raised, NoneStr} THEN Raised ELSE a \o b \o c

\* " ".join(names)
RECURSIVE JoinNames(_)
JoinNames(names) ==
    IF Len(names) = 0 THEN ""
    ELSE IF Len(names) = 1 THEN names[1]
    ELSE names[1] \o " " \o JoinNames(Tail(names))

\* str(i) for the argument positions of a parameter list
Str(i) == CASE i = 0 -> "0" [] i = 1 -> "1" [] i = 2 -> "2" [] i = 3 -> "3"
            [] i = 4 -> "4" [] i = 5 -> "5" [] i = 6 -> "6" [] i = 7 -> "7"
            [] i = 8 -> "8" [] i = 9 -> "9"

\* sep.join(parts): a text is the sequence of the strings it is concatenated
\* from; the separator is one element of the joined text
RECURSIVE Join(_, _)
Join(parts, sep) ==
    IF Len(parts) = 0 THEN << >>
    ELSE IF Len(parts) = 1 THEN parts[1]
    ELSE parts[1] \o <<sep>> \o Join(Tail(parts), sep)

\* text.split(sep): the list of the texts between the separators; the empty
\* text splits into one empty text
RECURSIVE SplitFrom(_, _, _)
SplitFrom(text, sep, cur) ==
    IF Len(text) = 0 THEN <<cur>>
    ELSE IF text[1] = sep THEN <<cur>> \o SplitFrom(Tail(text), sep, << >>)
    ELSE SplitFrom(Tail(text), sep, Append(cur, text[1]))

Split(text, sep) == SplitFrom(text, sep, << >>)

-----------------------------------------------------------------------------
(* Types *)

getDeclName(decl) ==
    LET inner == IF decl.node = "TypeDecl" THEN decl.type ELSE decl
    IN  CASE inner.node = "IdentifierType" -> JoinNames(inner.names)
          [] inner.node \in {"Struct", "Union"} -> inner.name
          [] inner.node = "Decl" -> inner.name
          [] inner.node = "Enum" -> "c_int"
          [] OTHER -> Raised

isPointerTo(ty, text) ==
    /\ ty.node = "PtrDecl"
    /\ ty.type.node = "TypeDecl"
    /\ getDeclName(ty.type) = text

PtrWrap(ty, eltType) ==
    IF "const" \in ty.type.quals
    THEN Cat3("c_ptrConst(", eltType, ")")
    ELSE Cat3("c_ptr(", eltType, ")")

RECURSIVE toChapelType(_)
toChapelType(ty) ==
    IF isPointerTo(ty, "char") THEN
        IF "const" \in ty.type.quals
        THEN "c_ptrConst(" \o "c_char" \o ")"
        ELSE "c_ptr(" \o "c_char" \o ")"
    ELSE IF ty.node = "ArrayDecl" THEN
        LET eltType == toChapelType(ty.type)
        IN  IF eltType = Raised THEN Raised
            ELSE IF eltType # NoneStr THEN
                IF ty.type.node = "ArrayDecl" THEN eltType
                ELSE PtrWrap(ty, eltType)
            ELSE NoneStr
    ELSE IF ty.node = "PtrDecl" THEN
        IF ty.type.node = "FuncDecl" THEN "c_fn_ptr"
        ELSE PtrWrap(ty, IF isPointerTo(ty, "void") THEN "void"
                         ELSE toChapelType(ty.type))
    ELSE IF ty.node = "TypeDecl" THEN
        LET name == getDeclName(ty)
        IN  IF name = Raised THEN Raised
            ELSE IF name \in DOMAIN c2chapel THEN c2chapel[name]
            ELSE name
    ELSE IF ty.node = "FuncDecl" THEN "c_fn_ptr"
    ELSE Raised

-----------------------------------------------------------------------------
(* Printed items.  Each is one print call (genComment: one per line). *)

\* genComment(s), for the one-line comments the translation writes
genComment(s) ==
    IF noComments THEN << >> ELSE <<[k |-> "comment", text |-> s]>>

\* print() and print(s) for a string that is no declaration: "", "\n", "/*", "*/"
Text(s) == [k |-> "text", text |-> s]

\* "extern proc " + fnName + "(" + args + ") : " + retType + ";\n"
ProcLine(fnName, args, retType) ==
    [k |-> "proc", name |-> fnName, args |-> args, ret |-> retType]

\* ret of genStructOrUnion: the header (extern "struct name" record name, or
\* extern record name when isAnon), and the members between the braces
AggLine(isUnion, isAnon, name, members) ==
    [k |-> IF isUnion THEN "union" ELSE "record",
     cname |-> IF isAnon THEN ""
               ELSE (IF isUnion THEN "union " ELSE "struct ") \o name,
     name |-> name, members |-> members, opaque |-> FALSE]

\* "extern type " + alias + ";" (rhs = "") or "extern type " + alias + " = " + rhs + ";"
TypeLine(alias, rhs) == [k |-> "type", name |-> alias, rhs |-> rhs]

\* "extern var " + name + " : " + ty + ";"
VarLine(name, ty) == [k |-> "var", name |-> name, ty |-> ty]

\* "extern const " + name + " :" + ty + ";"
ConstLine(name, ty) == [k |-> "const", name |-> name, ty |-> ty]

\* the kinds of printed items that are declarations
DeclKinds == {"proc", "record", "union", "type", "var", "const"}

-----------------------------------------------------------------------------
(* The state the emitters read and write: e.out (stdout), e.typeDefs,     *)
(* e.foundTypes, and e.exc (an exception is propagating).                 *)

Env(o, t, f) == [out |-> o, typeDefs |-> t, foundTypes |-> f, exc |-> FALSE]

Emit(e, items) == [e EXCEPT !.out = @ \o items]

Raise(e) == [e EXCEPT !.exc = TRUE]

-----------------------------------------------------------------------------
(* Functions *)

computeArgName(decl) ==
    IF decl.node = "Typename" THEN ""
    ELSE IF decl.node = "Decl" THEN
        IF decl.name \in chapelKeywords THEN decl.name \o "_arg" ELSE decl.name
    ELSE Raised

\* "True", "False", or Raised: typeDefs[name] is None and has no attribute type
RECURSIVE isStructOrUnionType(_, _)
isStructOrUnionType(defs, node) ==
    LET inner == IF node.node = "TypeDecl" THEN node.type ELSE node
    IN  IF inner.node = "IdentifierType" /\ JoinNames(inner.names) \in DOMAIN defs
        THEN IF defs[JoinNames(inner.names)] = None THEN Raised
             ELSE isStructOrUnionType(defs, defs[JoinNames(inner.names)].type)
        ELSE IF inner.node \in {"Struct", "Union"} THEN "True"
        ELSE "False"

\* mutant of IsRefPointer: the pointers to unsigned char are passed by ref
IsRefPointer_UnsignedChar(curType) ==
    /\ curType.node = "PtrDecl"
    /\ ~ (\/ isPointerTo(curType, "char")
          \/ isPointerTo(curType, "void")
          \/ toChapelType(curType) = "c_fn_ptr")

\* True for the pointers that are passed by ref: not a pointer to unsigned
\* char, char, void or a function
IsRefPointer(curType) ==
    /\ curType.node = "PtrDecl"
    /\ ~ (\/ isPointerTo(curType, "unsigned char")
          \/ isPointerTo(curType, "char")
          \/ isPointerTo(curType, "void")
          \/ toChapelType(curType) = "c_fn_ptr")

\* lines 220-233, given ptrType (line 221) and the condition of line 223
IntentInfo(ty, ptrType, isRef) ==
    IF ptrType = Raised
    THEN [refIntent |-> "", retType |-> Raised, ptrType |-> Raised]
    ELSE IF isRef
    THEN [refIntent |-> (IF ptrType # "" /\ "const" \in ty.type.quals
                         THEN "const " ELSE "") \o "ref",
          retType |-> toChapelType(ty.type), ptrType |-> ptrType]
    ELSE [refIntent |-> "", retType |-> toChapelType(ty), ptrType |-> ptrType]

getIntentInfo(ty) ==
    IntentInfo(ty, IF ty.node = "PtrDecl" THEN toChapelType(ty) ELSE "",
               IsRefPointer(ty))

\* what an iteration of the loop of computeArgs hands on: an exception, or
\* the formals it appended to formals and to ptrFormals
Appended(formals, ptrFormals) ==
    [exc |-> FALSE, formals |-> formals, ptrFormals |-> ptrFormals]

ArgsRaised == [exc |-> TRUE, formals |-> << >>, ptrFormals |-> << >>]

\* intent + argName + " : " + typeName
FormalText(intent, argName, typeName) == <<intent \o argName, " : ", typeName>>

\* lines 250-263, given the intent (after lines 251-255) and the argument
\* name (after lines 256-257)
FormalTexts(intent, argName, typeName, ptrTypeName) ==
    Appended(<<FormalText(intent, argName, typeName)>>,
             IF ptrTypeName # ""
             THEN <<FormalText("", argName, ptrTypeName)>>
             ELSE <<FormalText(intent, argName, typeName)>>)

\* lines 249-263 for the parameter at index i, given getIntentInfo(arg.type),
\* computeArgName(arg) and, for line 252, isStructOrUnionType(arg.type)
FormalOf(i, info, name0, isSU) ==
    IF info.retType = Raised \/ name0 = Raised THEN ArgsRaised
    ELSE IF info.retType = "" THEN Appended(<< >>, << >>)
    ELSE IF info.refIntent = "" /\ isSU = Raised THEN ArgsRaised
    ELSE IF info.retType = NoneStr THEN ArgsRaised
    ELSE FormalTexts(IF info.refIntent = ""
                     THEN (IF isSU = "True" THEN "in " ELSE "")
                     ELSE info.refIntent \o " ",
                     IF name0 = "" THEN "arg" \o Str(i) ELSE name0,
                     info.retType, info.ptrType)

\* the body of the loop of computeArgs for the parameter arg at index i
Formal(defs, i, arg) ==
    IF arg.node = "EllipsisParam"
    THEN Appended(<< <<VARARGS_STR>> >>, << <<VARARGS_STR>> >>)
    ELSE FormalOf(i, getIntentInfo(arg.type), computeArgName(arg),
                  isStructOrUnionType(defs, arg.type))

\* an iteration's result f followed by the result r of the iterations after it
ThenFormals(f, r) ==
    IF f.exc \/ r.exc THEN ArgsRaised
    ELSE Appended(f.formals \o r.formals, f.ptrFormals \o r.ptrFormals)

\* the loop of computeArgs from index i on
RECURSIVE FormalsFrom(_, _, _)
FormalsFrom(defs, params, i) ==
    IF i >= Len(params) THEN Appended(<< >>, << >>)
    ELSE ThenFormals(Formal(defs, i, params[i + 1]),
                     FormalsFrom(defs, params, i + 1))

\* the return of computeArgs (line 265)
JoinedArgs(r) ==
    [exc |-> r.exc, args |-> Join(r.formals, ", "),
     ptrArgs |-> Join(r.ptrFormals, ", ")]

\* pl - a c_ast.ParamList, or None
computeArgs(defs, pl) ==
    IF pl = None THEN [exc |-> FALSE, args |-> << >>, ptrArgs |-> << >>]
    ELSE JoinedArgs(FormalsFrom(defs, pl.params, 0))

RECURSIVE getFunctionName(_)
getFunctionName(ty) ==
    IF ty.node \in {"PtrDecl", "FuncDecl"} THEN getFunctionName(ty.type)
    ELSE IF ty.node # "TypeDecl" THEN Raised
    ELSE ty.declname

\* re.match(r'.*: \bva_list\b', args): the ": " that ends the " : " of a
\* formal, followed by a type name that is the word va_list
MatchesVaList(args) ==
    \E i \in 1..(Len(args) - 1) : args[i] = " : " /\ args[i + 1] = "va_list"

\* mutant of OverloadOf: the first element of listArgs is compared with
\* the marker, not the last
OverloadOf_First(fnName, listArgs, retType) ==
    IF listArgs[1] = <<VARARGS_STR>>
    THEN genComment("Overload for empty varargs")
         \o <<ProcLine(fnName, Join(SubSeq(listArgs, 1, Len(listArgs) - 1), ","),
                       retType)>>
    ELSE << >>

\* the overload for empty varargs (lines 357-360), from listArgs
OverloadOf(fnName, listArgs, retType) ==
    IF listArgs[Len(listArgs)] = <<VARARGS_STR>>
    THEN genComment("Overload for empty varargs")
         \o <<ProcLine(fnName, Join(SubSeq(listArgs, 1, Len(listArgs) - 1), ","),
                       retType)>>
    ELSE << >>

VarargsOverload(fnName, args, retType) ==
    OverloadOf(fnName, Split(args, ", "), retType)

\* the second declaration (lines 353-354)
PtrOverload(fnName, args, ptrArgs, retType) ==
    IF ptrArgs # args THEN <<ProcLine(fnName, ptrArgs, retType)>> ELSE << >>

\* lines 339-360, given retType, fnName and (args, ptrArgs) of lines 335-337
FuncDeclOf(e, retType0, fnName, a) ==
    IF retType0 = Raised \/ fnName = Raised \/ a.exc THEN Raise(e)
    ELSE IF fnName \in chapelKeywords
    THEN Emit(e, genComment("Unable to generate function '" \o fnName
                            \o "' because its name is a Chapel keyword")
                 \o <<Text("")>>)
    ELSE IF MatchesVaList(a.args)
    THEN Emit(e, genComment("Unable to generate function '" \o fnName
                            \o "' due to va_list argument")
                 \o <<Text("")>>)
    ELSE IF retType0 = NoneStr THEN Raise(e)
    ELSE Emit(e, <<ProcLine(fnName, a.args, IF retType0 = "" THEN "void" ELSE retType0)>>
                 \o PtrOverload(fnName, a.args, a.ptrArgs,
                                IF retType0 = "" THEN "void" ELSE retType0)
                 \o VarargsOverload(fnName, a.args,
                                    IF retType0 = "" THEN "void" ELSE retType0))

genFuncDecl(e, fn) ==
    FuncDeclOf(e, toChapelType(fn.type), getFunctionName(fn.type),
               computeArgs(e.typeDefs, fn.args))

-----------------------------------------------------------------------------
(* Structs and unions *)

RECURSIVE getStructOrUnionDef(_)
getStructOrUnionDef(decl) ==
    IF decl.node \in {"Struct", "Union"} THEN
        IF decl.decls # None THEN decl ELSE None
    ELSE IF decl.node \in {"Decl", "TypeDecl", "PtrDecl"}
    THEN getStructOrUnionDef(decl.type)
    ELSE None

\* not node.decls: None, or an empty list
NotDecls(node) == node.decls = None \/ Len(node.decls.items) = 0

isStructOrUnionForwardDeclared(defs, node) ==
    isStructOrUnionType(defs, node) = "True" /\ NotDecls(node)

\* the state of the loop over structOrUnion.decls
LoopState(e, members, warnKeyword, warnSkippingAnonymousType) ==
    [e |-> e, members |-> members, warnKeyword |-> warnKeyword,
     warnSkippingAnonymousType |-> warnSkippingAnonymousType]

\* members += "  var " + fieldName + " : " + chapelType + ";\n"
Member(fieldName, chapelType) == [name |-> fieldName, type |-> chapelType]

\* what the loop does when a field's name is a keyword (lines 417-420)
KeywordField(st) == LoopState(st.e, << >>, TRUE, st.warnSkippingAnonymousType)

\* what the loop does when a field's type is None (lines 423-425)
NoneTypeField(st) == LoopState(st.e, st.members, st.warnKeyword, TRUE)

\* lines 414-426 for the declaration decl, after lines 410-412 have left the
\* state st: the state at the break or the exception, or None to go on to
\* the next declaration with st
FieldStep(st, decl) ==
    IF st.e.exc THEN st
    ELSE IF decl.node = "Pragma" THEN st
    ELSE IF getDeclName(decl) = Raised THEN [st EXCEPT !.e = Raise(@)]
    ELSE IF getDeclName(decl) \in chapelKeywords THEN KeywordField(st)
    ELSE IF toChapelType(decl.type) = Raised THEN [st EXCEPT !.e = Raise(@)]
    ELSE IF toChapelType(decl.type) = NoneStr THEN NoneTypeField(st)
    ELSE IF getDeclName(decl) = NoneStr THEN [st EXCEPT !.e = Raise(@)]
    ELSE None

\* the state after line 426
WithMember(st, decl) ==
    [st EXCEPT !.members =
        Append(@, Member(getDeclName(decl), toChapelType(decl.type)))]

\* lines 428-435, given the state the loop has left
EmitAggregate(st, isUnion, isAnon, name) ==
    IF st.e.exc THEN st.e
    ELSE Emit(st.e,
           (IF st.warnKeyword
            THEN genComment("Fields omitted because one or more of the identifiers is a Chapel keyword")
            ELSE << >>)
           \o (IF st.warnSkippingAnonymousType
               THEN genComment("Anonymous union or struct was encountered within and skipped.")
               ELSE << >>)
           \o <<AggLine(isUnion, isAnon, name, st.members)>>)

\* the message of lines 388-390
KeywordAggregate(e, isUnion, name) ==
    Emit(e, genComment("Unable to generate "
                       \o (IF isUnion THEN "union" ELSE "struct")
                       \o " '" \o name \o "' "
                       \o "because its name is a Chapel keyword")
            \o <<Text("")>>)

RECURSIVE genStructOrUnion(_, _, _, _)
RECURSIVE FieldLoop(_, _, _)
RECURSIVE FieldLoopFrom(_, _, _, _)

\* the loop of lines 409-426 from the i-th declaration on, given the state
\* st1 after lines 410-412 and the outcome of lines 414-426
FieldLoopFrom(decls, i, st1, step) ==
    IF step # None THEN step
    ELSE FieldLoop(decls, i + 1, WithMember(st1, decls[i]))

\* lines 410-412: the definition of a nested struct or union first
NestedFirst(st, decl) ==
    IF getStructOrUnionDef(decl) # None
    THEN [st EXCEPT !.e = genStructOrUnion(@, getStructOrUnionDef(decl), "", FALSE)]
    ELSE st

\* the loop of lines 409-426 from the i-th declaration on; a break returns
\* the state, an exception returns it with st.e.exc set
FieldLoop(decls, i, st) ==
    IF i > Len(decls) THEN st
    ELSE FieldLoopFrom(decls, i, NestedFirst(st, decls[i]),
                       FieldStep(NestedFirst(st, decls[i]), decls[i]))

\* lines 384-435, given the name of lines 378-382
GenAggregate(e, structOrUnion, name, isAnon, isUnion) ==
    IF name \in chapelKeywords THEN KeywordAggregate(e, isUnion, name)
    ELSE IF isStructOrUnionForwardDeclared(e.typeDefs, structOrUnion)
    THEN Emit([e EXCEPT !.foundTypes = @ \cup {name}], <<Text("")>>)
    ELSE EmitAggregate(FieldLoop(structOrUnion.decls.items, 1,
                                 LoopState([e EXCEPT !.foundTypes = @ \cup {name}],
                                           << >>, FALSE, FALSE)),
                       isUnion, isAnon, name)

genStructOrUnion(e, structOrUnion, name0, isAnon) ==
    IF name0 = "" /\ structOrUnion.name = NoneStr THEN e
    ELSE GenAggregate(e, structOrUnion,
                      IF name0 = "" THEN structOrUnion.name ELSE name0, isAnon,
                      getStructOrUnionDef(structOrUnion).node = "Union")

-----------------------------------------------------------------------------
(* Variables and enums *)

\* the name genVar declares the variable under (lines 438-440)
VarName(name) == IF name \in chapelKeywords THEN "c2chapel_" \o name ELSE name

\* lines 443-444, given ty of line 442
VarOf(e, name, ty) ==
    IF ty \in {Raised, NoneStr} THEN Raise(e)
    ELSE Emit(e, <<VarLine(name, ty), Text("")>>)

genVar(e, decl) == VarOf(e, VarName(decl.name), toChapelType(decl.type))

genEnum(e, decl) ==
    Emit(e, (IF decl.name # NoneStr
             THEN genComment("Enum: " \o decl.name)
             ELSE genComment("Enum: anonymous"))
            \o [i \in 1..Len(decl.values) |-> ConstLine(decl.values[i], "c_int")]
            \o <<Text("\n")>>)

\* decl is the TypeDecl of a typedef of an enum
genTypeEnum(e, decl) ==
    IF decl.type.node = "Enum"
    THEN Emit(e, [i \in 1..Len(decl.type.values) |->
                     ConstLine(decl.type.values[i], decl.declname)]
                 \o <<Text("\n")>>)
    ELSE e

-----------------------------------------------------------------------------
(* ChapelVisitor *)

\* typeDefs[name] = value
SetTypeDef(e, name, value) ==
    [e EXCEPT !.typeDefs =
        [n \in DOMAIN @ \cup {name} |-> IF n = name THEN value ELSE @[n]]]

\* lines 474-475, given the state genStructOrUnion has left
PruneTypedef(e1, node) ==
    IF e1.exc THEN e1
    ELSE IF ~ isStructOrUnionForwardDeclared(e1.typeDefs, node)
    THEN SetTypeDef(e1, node.name, None)
    ELSE e1

visit_StructOrUnion(e, node) ==
    PruneTypedef(genStructOrUnion(e, node, "", FALSE), node)

visit_Typedef(e, node) ==
    IF node.name \notin DOMAIN e.typeDefs
    THEN SetTypeDef(e, node.name, node)
    ELSE e

visit_FuncDecl(e, node) == genFuncDecl(e, node)

\* node.children() of a Decl: its type, and its initializer when it has one
DeclChildren(node) ==
    <<node.type>> \o (IF node.init # None THEN <<node.init>> ELSE << >>)

\* the body of the loop of visit_Decl for the child c
VisitChild(e, node, c) ==
    IF c.node \in {"Struct", "Union"} THEN visit_StructOrUnion(e, c)
    ELSE IF c.node = "FuncDecl" THEN visit_FuncDecl(e, c)
    ELSE IF c.node = "Enum" THEN genEnum(e, c)
    ELSE IF c.node \in {"TypeDecl", "PtrDecl", "ArrayDecl"} THEN genVar(e, node)
    ELSE Raise(e)

RECURSIVE VisitChildren(_, _, _)
VisitChildren(e, node, cs) ==
    IF e.exc \/ Len(cs) = 0 THEN e
    ELSE VisitChildren(VisitChild(e, node, cs[1]), node, Tail(cs))

visit_Decl(e, node) == VisitChildren(e, node, DeclChildren(node))

visit_FuncDef(e, node) == visit_Decl(e, node.decl)

\* NodeVisitor.visit: the method named after the node's class, or
\* generic_visit, which reaches no method of ChapelVisitor below a top-level node
Visit(e, node) ==
    CASE node.node = "Decl" -> visit_Decl(e, node)
      [] node.node = "Typedef" -> visit_Typedef(e, node)
      [] node.node = "FuncDef" -> visit_FuncDef(e, node)
      [] OTHER -> e

-----------------------------------------------------------------------------
(* Typedefs *)

\* Bookkeeping for the properties, no part of the printed text: every item
\* of out carries the index of the top-level declaration whose visit printed
\* it (decl, 0 for handleTypedefs) and the typedef name whose iteration of
\* the loop of genTypedefs printed it (td, NoneStr outside that loop).  Tags
\* an item already has are kept.
Tag(items, decl, td) ==
    [i \in 1..Len(items) |-> items[i] @@ [decl |-> decl, td |-> td]]

\* lines 514-519, given typeName of line 512
TypeAliasOf(e, alias, typeName) ==
    IF typeName \in {Raised, NoneStr} THEN Raise(e)
    ELSE [Emit(e, <<TypeLine(alias, typeName), Text("")>>)
             EXCEPT !.foundTypes = @ \cup {alias}]

genTypeAlias(e, node) ==
    IF node.type.node \in {"PtrDecl", "TypeDecl"}
    THEN TypeAliasOf(e, node.name, toChapelType(node.type))
    ELSE e

\* isPointerToStruct(node) is not None (kind = "Struct"),
\* isPointerToUnion(node) is not None (kind = "Union")
RECURSIVE isPointerToAggregate(_, _)
isPointerToAggregate(node, kind) ==
    IF node.node = "PtrDecl" THEN
        IF node.type.node = "TypeDecl" /\ node.type.type.node = kind THEN TRUE
        ELSE isPointerToAggregate(node.type, kind)
    ELSE FALSE

isPointerToStruct(node) == isPointerToAggregate(node, "Struct")

isPointerToUnion(node) == isPointerToAggregate(node, "Union")

\* print(gen) of lines 546-551: "extern record " + name + " {};\n"
OpaqueLine(isUnion, name) ==
    [k |-> IF isUnion THEN "union" ELSE "record", cname |-> "", name |-> name,
     members |-> << >>, opaque |-> TRUE]

\* Python's order of the strings that are keys of typeDefs in the inputs
NameOrder == <<"A", "B", "C", "E", "P", "S", "record">>

Rank(n) == CHOOSE i \in 1..Len(NameOrder) : NameOrder[i] = n

\* mutant of Sorted: the keys in descending order
RECURSIVE Sorted_Descending(_)
Sorted_Descending(keys) ==
    IF keys = {} THEN << >>
    ELSE LET m == CHOOSE x \in keys : \A y \in keys : Rank(x) >= Rank(y)
         IN  <<m>> \o Sorted_Descending(keys \ {m})

\* sorted(defs): the keys in ascending order
RECURSIVE Sorted(_)
Sorted(keys) ==
    IF keys = {} THEN << >>
    ELSE LET m == CHOOSE x \in keys : \A y \in keys : Rank(x) <= Rank(y)
         IN  <<m>> \o Sorted(keys \ {m})

\* mutant of EmitsOpaque: the typedef table consulted in place of foundTypes
EmitsOpaque_TypedefTable(e, sn) == sn.name \notin DOMAIN e.typeDefs

\* the choice of lines 545-553 for a typedef of a struct or union that has no
\* field list: TRUE for the opaque record, FALSE for the alias
EmitsOpaque(e, sn) == sn.name \notin e.foundTypes

\* lines 542-553: a typedef of the struct or union sn
TypedefOfAggregate(e, name, node, sn) ==
    IF sn.decls # None THEN genStructOrUnion(e, sn, node.name, TRUE)
    ELSE IF EmitsOpaque(e, sn)
    THEN Emit(e, genComment("Opaque "
                            \o (IF sn.node = "Union" THEN "union" ELSE "struct")
                            \o "?")
                 \o <<OpaqueLine(sn.node = "Union", name)>>)
    ELSE genTypeAlias(e, node)

\* lines 554-565: the other typedefs
TypedefOfOther(e, node) ==
    IF isPointerToStruct(node.type)
    THEN Emit(e, genComment("Typedef'd pointer to struct")
                 \o <<TypeLine(node.name, "")>>)
    ELSE IF isPointerToUnion(node.type)
    THEN Emit(e, genComment("Typedef'd pointer to union")
                 \o <<TypeLine(node.name, "")>>)
    ELSE IF node.type.type.node = "Enum"
    THEN genTypeEnum(Emit(e, genComment(node.name \o " enum")
                             \o <<TypeLine(node.name, "c_int")>>),
                     node.type)
    ELSE genTypeAlias(e, node)

\* the body of the loop of genTypedefs for the key name
TypedefBody(e, name, node) ==
    IF node = None THEN e
    ELSE IF node.type.type.node \in {"Struct", "Union"}
    THEN TypedefOfAggregate(e, name, node, node.type.type)
    ELSE TypedefOfOther(e, node)

\* e1 with what it printed after e tagged with the typedef name
Tagged(e, e1, name) ==
    [e1 EXCEPT !.out =
        e.out \o Tag(SubSeq(@, Len(e.out) + 1, Len(@)), 0, name)]

RECURSIVE TypedefLoop(_, _, _)
TypedefLoop(e, defs, names) ==
    IF e.exc \/ Len(names) = 0 THEN e
    ELSE TypedefLoop(Tagged(e, TypedefBody(e, names[1], defs[names[1]]), names[1]),
                     defs, Tail(names))

genTypedefs(e, defs) == TypedefLoop(e, defs, Sorted(DOMAIN defs))

\* the typedefs handleTypedefs moves to ignoreDefs (lines 568-572)
IgnoreDefs(defs, ign) == [i \in ign \cap DOMAIN defs |-> defs[i]]

\* mutant of WithoutIgnored: the ignored entries are left in defs
WithoutIgnored_Kept(defs, ign) == defs

\* defs after the loop of lines 569-572
WithoutIgnored(defs, ign) ==
    [n \in DOMAIN defs |-> IF n \in ign THEN None ELSE defs[n]]

numDefs(defs) == Cardinality({x \in DOMAIN defs : defs[x] # None})

\* lines 574-578
ActiveTypedefs(e) ==
    IF numDefs(e.typeDefs) # 0
    THEN genTypedefs(Emit(e, genComment("==== c2chapel typedefs ====")
                             \o <<Text("")>>),
                     e.typeDefs)
    ELSE e

\* line 584, given the state genTypedefs(ignoreDefs) has left
CloseBlock(e2) == IF e2.exc THEN e2 ELSE Emit(e2, <<Text("*/")>>)

\* lines 580-584, given the state lines 574-578 have left
IgnoredTypedefs(e1, ignoreDefs) ==
    IF e1.exc THEN e1
    ELSE IF DOMAIN ignoreDefs # {}
    THEN CloseBlock(genTypedefs(
             Emit(e1, genComment("c2chapel thinks these typedefs are from the fake headers:")
                      \o <<Text("/*")>>),
             ignoreDefs))
    ELSE e1

HandleTypedefs(e0, ign) ==
    IgnoredTypedefs(
        ActiveTypedefs([e0 EXCEPT !.typeDefs = WithoutIgnored(@, ign)]),
        IgnoreDefs(e0.typeDefs, ign))

-----------------------------------------------------------------------------
(* The scan for #define'd integer literals.  A line is the sequence of its *)
(* tokens: each maximal run of white space is the token " ", and the other *)
(* tokens are the text between the runs.                                   *)

\* the tokens that match [_a-zA-Z0-9]+
Words == {"ANSWER", "OTHER", "42", "7", "0x10", "int"}

\* the tokens that match [0-9]+
Digits == {"42", "7"}

\* the line after the ^\s* of the pattern
AfterLeadingSpace(line) ==
    IF line # << >> /\ line[1] = " " THEN Tail(line) ELSE line

\* #define\s+([_a-zA-Z0-9]+)\s+[0-9]+$ matches the whole of rest
MatchesDefine(rest) ==
    /\ Len(rest) = 5
    /\ rest[1] = "#define"
    /\ rest[2] = " "
    /\ rest[3] \in Words
    /\ rest[4] = " "
    /\ rest[5] \in Digits

\* pat.match(line) is not None
Matches(line) == MatchesDefine(AfterLeadingSpace(line))

\* res.group(1)
Group1(line) == AfterLeadingSpace(line)[3]

\* "extern const " + name + " : int;"
DefineLine(name) == [k |-> "define", name |-> name]

\* what the loop body prints for one line (lines 600-607)
DefinePrinted(first, line) ==
    IF Matches(line)
    THEN (IF first
          THEN genComment("#define'd integer literals:")
               \o genComment("Note: some of these may have been defined with an ifdef")
          ELSE << >>)
         \o <<DefineLine(Group1(line))>>
    ELSE << >>

\* lines 609-612
DefinesEnd(first) ==
    IF first THEN << >>
    ELSE <<Text("")>> \o genComment("End of #define'd integer literals") \o <<Text("")>>

\* the loop of lines 599-607 from the i-th line on, and lines 609-612
RECURSIVE DefinesFrom(_, _, _, _)
DefinesFrom(f, i, first, printed) ==
    IF i > Len(f) THEN printed \o DefinesEnd(first)
    ELSE DefinesFrom(f, i + 1, first /\ ~ Matches(f[i]),
                     printed \o DefinePrinted(first, f[i]))

\* what emit_defines prints for the file f
EmitDefines(f) == DefinesFrom(f, 1, TRUE, << >>)

-----------------------------------------------------------------------------
(* The run: __main__, lines 698-706 *)

\* emit_defines(fname)
emit_defines ==
    /\ pc = "defines"
    /\ out' = out \o Tag(EmitDefines(lines), 0, NoneStr)
    /\ pc' = "walk"
    /\ UNCHANGED <<ast, ignores, noComments, lines, pos, typeDefs, foundTypes>>

\* the variables after a step that has left the state e
After(e, decl) ==
    /\ out' = out \o Tag(SubSeq(e.out, Len(out) + 1, Len(e.out)), decl, NoneStr)
    /\ typeDefs' = e.typeDefs
    /\ foundTypes' = e.foundTypes

\* where the run goes after the visit of child pos has left the state e
AfterVisit(e) ==
    /\ After(e, pos)
    /\ pos' = IF e.exc THEN pos ELSE pos + 1
    /\ pc' = IF e.exc THEN "aborted"
             ELSE IF pos = Len(ast) THEN "typedefs" ELSE "walk"

AfterTypedefs(e) ==
    /\ After(e, 0)
    /\ pc' = IF e.exc THEN "aborted" ELSE "done"

\* v.visit(ast), one child of the FileAST at a time
visit ==
    /\ pc = "walk"
    /\ pos <= Len(ast)
    /\ AfterVisit(Visit(Env(out, typeDefs, foundTypes), ast[pos]))
    /\ UNCHANGED <<ast, ignores, noComments, lines>>

\* handleTypedefs(typeDefs, ignores)
handleTypedefs ==
    /\ pc = "typedefs"
    /\ AfterTypedefs(HandleTypedefs(Env(out, typeDefs, foundTypes), ignores))
    /\ UNCHANGED <<ast, ignores, noComments, lines, pos>>

Next == emit_defines \/ visit \/ handleTypedefs

\* the state before emit_defines(fname), for the file f: empty tables
\* (lines 112, 115), nothing of the translation printed
StartWith(f, input, ign) ==
    /\ ast = input
    /\ ignores = ign
    /\ noComments \in BOOLEAN
    /\ lines = f
    /\ pos = 1
    /\ pc = "defines"
    /\ typeDefs = << >>
    /\ foundTypes = {}
    /\ out = << >>

\* the same for a file without a line that defines an integer literal
Start(input, ign) == StartWith(<< >>, input, ign)

-----------------------------------------------------------------------------
(* Inputs: declaration trees as pycparser builds them from C text *)

MaxDecls == 3

MaxParams == 2

MaxFields == 3

\* T name
Named(T, name) == TypeDecl(name, {}, IdentifierType(T))

\* int x;  as a member of a struct
IntField(name) == Decl(name, Named(<<"int">>, name), None)

\* struct S;
FwdS == Decl(NoneStr, Struct("S", None), None)

\* struct S { int x; };
DefS == Decl(NoneStr, Struct("S", List(<<IntField("x")>>)), None)

\* typedef struct S A;
TdA == Typedef("A", TypeDecl("A", {}, Struct("S", None)))

\* typedef struct S { int x; } B;
TdB == Typedef("B", TypeDecl("B", {}, Struct("S", List(<<IntField("x")>>))))

\* typedef struct S S;
TdS == Typedef("S", TypeDecl("S", {}, Struct("S", None)))

\* typedef int C;
TdC == Typedef("C", Named(<<"int">>, "C"))

\* typedef struct S *P;
TdP == Typedef("P", PtrDecl({}, TypeDecl("P", {}, Struct("S", None))))

\* typedef enum { E0 } E;
TdE == Typedef("E", TypeDecl("E", {}, Enum(NoneStr, <<"E0">>)))

\* void f(S s);
FuncF == Decl("f", FuncDecl(ParamList(<<Decl("s", Named(<<"S">>, "s"), None)>>),
                            Named(<<"void">>, "f")), None)

\* int type;
VarType == Decl("type", Named(<<"int">>, "type"), None)

\* long v;
VarV == Decl("v", Named(<<"long">>, "v"), None)

TopLevel == {FwdS, DefS, TdA, TdB, TdS, TdC, TdP, TdE, FuncF, VarType, VarV}

\* the struct or union a top-level declaration or typedef defines with a
\* field list, or None
DefinedAggregate(d) ==
    IF d.node = "Decl" /\ d.type.node \in {"Struct", "Union"}
    THEN getStructOrUnionDef(d.type)
    ELSE IF d.node = "Typedef" /\ d.type.node = "TypeDecl"
    THEN getStructOrUnionDef(d.type)
    ELSE None

\* C text the compiler accepts: no declaration twice, a tag defined at most
\* once, and the typedef name S declared before void f(S s) uses it
WellFormed(input) ==
    /\ \A i, j \in DOMAIN input : i # j => input[i] # input[j]
    /\ \A i, j \in DOMAIN input :
          (i # j /\ DefinedAggregate(input[i]) # None
                 /\ DefinedAggregate(input[j]) # None)
             => DefinedAggregate(input[i]).name # DefinedAggregate(input[j]).name
    /\ \A j \in DOMAIN input :
          input[j] = FuncF => \E i \in 1..(j - 1) : input[i] = TdS

Inputs ==
    {input \in UNION {[1..n -> TopLevel] : n \in 1..MaxDecls} : WellFormed(input)}

\* the names the fake headers are taken to declare
IgnoreSets == {{}, {"A", "S"}, {"B", "C", "E"}}

Init == \E input \in Inputs, ign \in IgnoreSets : Start(input, ign)

Spec == Init /\ [][Next]_vars

-----------------------------------------------------------------------------
(* Inputs: one function declaration, over the shapes of its parameters *)

ParamShapes ==
    {"int", "const int *", "int *", "char *", "const char *", "unsigned char *",
     "void *", "void (*)()", "struct S", "struct S *", "int **", "unnamed int",
     "int in", "va_list", "void", "__typeof__(v)"}

\* the parameter of the given shape at index i of a parameter list
Param(shape, i) ==
    LET x == "x" \o Str(i)
    IN  CASE shape = "int" -> Decl(x, Named(<<"int">>, x), None)
          [] shape = "const int *" ->
                Decl(x, PtrDecl({}, TypeDecl(x, {"const"}, IdentifierType(<<"int">>))), None)
          [] shape = "int *" -> Decl(x, PtrDecl({}, Named(<<"int">>, x)), None)
          [] shape = "char *" -> Decl(x, PtrDecl({}, Named(<<"char">>, x)), None)
          [] shape = "const char *" ->
                Decl(x, PtrDecl({}, TypeDecl(x, {"const"}, IdentifierType(<<"char">>))), None)
          [] shape = "unsigned char *" ->
                Decl(x, PtrDecl({}, Named(<<"unsigned", "char">>, x)), None)
          [] shape = "void *" -> Decl(x, PtrDecl({}, Named(<<"void">>, x)), None)
          [] shape = "void (*)()" ->
                Decl(x, PtrDecl({}, FuncDecl(None, Named(<<"void">>, x))), None)
          [] shape = "struct S" -> Decl(x, TypeDecl(x, {}, Struct("S", None)), None)
          [] shape = "struct S *" ->
                Decl(x, PtrDecl({}, TypeDecl(x, {}, Struct("S", None))), None)
          [] shape = "int **" ->
                Decl(x, PtrDecl({}, PtrDecl({}, Named(<<"int">>, x))), None)
          [] shape = "unnamed int" -> Typename(Named(<<"int">>, NoneStr))
          [] shape = "int in" -> Decl("in", Named(<<"int">>, "in"), None)
          [] shape = "va_list" -> Decl(x, Named(<<"va_list">>, x), None)
          [] shape = "void" -> Typename(Named(<<"void">>, NoneStr))
          [] shape = "__typeof__(v)" -> Decl(x, TypeDecl(x, {}, TypeOfDeclaration), None)

Params(shapes) == [i \in 1..Len(shapes) |-> Param(shapes[i], i - 1)]

\* ret name(params) or ret name(params, ...)
Function(name, ret, shapes, ellipsis) ==
    Decl(name,
         FuncDecl(ParamList(Params(shapes)
                            \o (IF ellipsis THEN <<EllipsisParam>> ELSE << >>)),
                  Named(ret, name)),
         None)

\* ret name();
FunctionNoList(name, ret) == Decl(name, FuncDecl(None, Named(ret, name)), None)

Functions ==
    {Function(name, ret, shapes, ellipsis) :
        name \in {"f", "begin"}, ret \in {<<"void">>, <<"int">>},
        shapes \in UNION {[1..n -> ParamShapes] : n \in 0..MaxParams},
        ellipsis \in BOOLEAN}
    \cup {FunctionNoList(name, ret) :
            name \in {"f", "begin"}, ret \in {<<"void">>, <<"int">>}}

\* C has no parameter list that is only an ellipsis
HasNamedParam(fn) ==
    IF fn.type.args = None THEN TRUE ELSE fn.type.args.params # <<EllipsisParam>>

InitFuncs == \E fn \in {f \in Functions : HasNamedParam(f)} : Start(<<fn>>, {})

SpecFuncs == InitFuncs /\ [][Next]_vars

-----------------------------------------------------------------------------
(* Inputs: one struct or union definition, over the shapes of its members *)

FieldShapes ==
    {"int", "int type", "struct { int b; }", "struct N { int c; }",
     "union { int d; };", "#pragma", "int *"}

\* the member of the given shape at position i of a field list
Field(shape, i) ==
    LET m == "m" \o Str(i)
    IN  CASE shape = "int" -> IntField(m)
          [] shape = "int type" -> IntField("type")
          [] shape = "struct { int b; }" ->
                Decl(m, TypeDecl(m, {}, Struct(NoneStr, List(<<IntField("b")>>))), None)
          [] shape = "struct N { int c; }" ->
                Decl(m, TypeDecl(m, {}, Struct("N" \o Str(i), List(<<IntField("c")>>))),
                     None)
          [] shape = "union { int d; };" ->
                Decl(NoneStr, Union(NoneStr, List(<<IntField("d")>>)), None)
          [] shape = "#pragma" -> Pragma
          [] shape = "int *" -> Decl(m, PtrDecl({}, Named(<<"int">>, m)), None)

Fields(shapes) == [i \in 1..Len(shapes) |-> Field(shapes[i], i)]

Aggregate(kind, name, shapes) ==
    IF kind = "union" THEN Union(name, List(Fields(shapes)))
    ELSE Struct(name, List(Fields(shapes)))

\* struct name { ... };  or  typedef struct name { ... } A;
AggregateDecls ==
    {Decl(NoneStr, Aggregate(kind, name, shapes), None) :
        kind \in {"struct", "union"}, name \in {"S", "record"},
        shapes \in UNION {[1..n -> FieldShapes] : n \in 1..MaxFields}}
    \cup {Typedef("A", TypeDecl("A", {}, Aggregate(kind, name, shapes))) :
            kind \in {"struct", "union"}, name \in {"S", "record"},
            shapes \in UNION {[1..n -> FieldShapes] : n \in 1..MaxFields}}

InitAggs == \E d \in AggregateDecls : Start(<<d>>, {})

SpecAggs == InitAggs /\ [][Next]_vars

-----------------------------------------------------------------------------
(* Reading the output *)

IsText(i, text) == out[i].k = "text" /\ out[i].text = text

IsComment(i) == out[i].k = "comment"

IsDeclaration(i) == out[i].k \in DeclKinds

\* item i lies after a "/*" that no "*/" before i closes
InDisabledBlock(i) ==
    \E a \in 1..(i - 1) : IsText(a, "/*") /\ \A b \in a..i : ~ IsText(b, "*/")

\* item i was printed by the visit of a top-level declaration
FromWalk(i) == out[i].decl > 0

\* item i was printed for a typedef, by the loop of genTypedefs
FromTypedef(i) == out[i].td # NoneStr

\* item i is the body of a struct or union: its fields between braces
IsBody(i) == out[i].k \in {"record", "union"} /\ ~ out[i].opaque

IsOpaque(i) == out[i].k \in {"record", "union"} /\ out[i].opaque

\* the typedefs of the input whose type is the struct or union tag itself
\* (not a pointer to it)
TypedefsOf(tag) ==
    {a \in DOMAIN ast :
        /\ ast[a].node = "Typedef"
        /\ ast[a].type.node = "TypeDecl"
        /\ ast[a].type.type.node \in {"Struct", "Union"}
        /\ ast[a].type.type.name = tag}

\* the places of the input that define the tag with a field list
DefinitionsOf(tag) ==
    {a \in DOMAIN ast : IF DefinedAggregate(ast[a]) = None THEN FALSE
                        ELSE DefinedAggregate(ast[a]).name = tag}

\* the places of the input that declare the tag without a field list
ForwardDeclarationsOf(tag) ==
    {a \in DOMAIN ast : /\ ast[a].node = "Decl"
                        /\ ast[a].type.node \in {"Struct", "Union"}
                        /\ ast[a].type.name = tag
                        /\ ast[a].type.decls = None}

-----------------------------------------------------------------------------
(* C1: In the output of a full run, what is printed for the non-typedef    *)
(* top-level declarations appears in the order of the source               *)
(* declarations, everything printed for a typedef comes after all of it,   *)
(* and the typedef declarations are in ascending order of the typedef      *)
(* name (the active declarations among themselves, and the text of the     *)
(* ignored typedefs inside the disabled block among itself).               *)
C1_OutputOrder ==
    /\ \A i \in DOMAIN out : FromWalk(i) => ast[out[i].decl].node # "Typedef"
    /\ \A i, j \in DOMAIN out :
          (i < j /\ FromWalk(i) /\ FromWalk(j)) => out[i].decl <= out[j].decl
    /\ \A i, j \in DOMAIN out : (FromWalk(i) /\ FromTypedef(j)) => i < j
    /\ \A i, j \in DOMAIN out :
          (i < j /\ FromTypedef(i) /\ FromTypedef(j)
                 /\ InDisabledBlock(i) = InDisabledBlock(j))
             => Rank(out[i].td) <= Rank(out[j].td)

\* a finished run that declared something for a top-level declaration and
\* then for two typedefs whose order in the source is not the order of their
\* names
C1_Witness ==
    /\ pc = "done"
    /\ \E i, j, k \in DOMAIN out, a, b \in DOMAIN ast :
          /\ FromWalk(i) /\ IsDeclaration(i)
          /\ i < j /\ j < k /\ IsDeclaration(j) /\ IsDeclaration(k)
          /\ ~ InDisabledBlock(j) /\ ~ InDisabledBlock(k)
          /\ ast[a].node = "Typedef" /\ ast[b].node = "Typedef" /\ b < a
          /\ out[j].td = ast[a].name /\ out[k].td = ast[b].name

-----------------------------------------------------------------------------
(* C2 *)

\* the input holds a forward declaration of struct S, a later definition of
\* S with a field list, and a typedef of struct S, and no typedef of S is in
\* the ignore set
C2_Case ==
    /\ \E f \in ForwardDeclarationsOf("S"), d \in DefinitionsOf("S") : f < d
    /\ TypedefsOf("S") # {}
    /\ \A a \in TypedefsOf("S") : ast[a].name \notin ignores

C2_Bodies == {i \in DOMAIN out : IsBody(i)}

-----------------------------------------------------------------------------
(* C3: A failure to translate the type of a parameter, variable, field or  *)
(* return value never aborts the run: no run ends by an exception, and     *)
(* every declaration of the input is visited.                              *)
C3_NeverAborts ==
    /\ pc # "aborted"
    /\ pc \in {"typedefs", "done"} => pos = Len(ast) + 1

-----------------------------------------------------------------------------
(* C4 *)

\* the name a top-level declaration defines: the tag of a struct or union,
\* the name of a function or a variable
DefinedName(d) ==
    IF d.node # "Decl" THEN NoneStr
    ELSE IF d.type.node \in {"Struct", "Union"} THEN d.type.name
    ELSE d.name

\* C4: for every visited function, struct, union and global variable whose
\* name is a reserved word the run emits no declaration at all, and (when
\* comments are printed) a diagnostic.
C4_ReservedNameNotEmitted ==
    \A a \in 1..(pos - 1) :
        DefinedName(ast[a]) \in chapelKeywords =>
            /\ \A i \in DOMAIN out : out[i].decl = a => ~ IsDeclaration(i)
            /\ ~ noComments => \E i \in DOMAIN out : out[i].decl = a /\ IsComment(i)

-----------------------------------------------------------------------------
(* C9 *)

\* the typedefs of the input that the typedef pass handles outside the
\* disabled block and whose struct or union has no field list
C9_Typedefs ==
    {a \in DOMAIN ast :
        /\ \E tag \in {"S"} : a \in TypedefsOf(tag)
        /\ ast[a].type.type.decls = None
        /\ ast[a].name \notin ignores
        /\ ast[a].name \in DOMAIN typeDefs
        /\ typeDefs[ast[a].name] = ast[a]}

\* C9: after the typedef pass, such a typedef is an empty opaque record under
\* the typedef name if and only if the input defines the tag nowhere, and a
\* plain alias when the input defines the tag somewhere.
C9_OpaqueIffUndefined ==
    pc = "done" =>
        \A a \in C9_Typedefs :
            /\ (\E i \in DOMAIN out : IsOpaque(i) /\ out[i].name = ast[a].name)
                  <=> DefinitionsOf(ast[a].type.type.name) = {}
            /\ DefinitionsOf(ast[a].type.type.name) # {}
                  => \E i \in DOMAIN out :
                        /\ out[i].k = "type" /\ out[i].name = ast[a].name
                        /\ out[i].rhs = ast[a].type.type.name

-----------------------------------------------------------------------------
(* C10: Everything printed for a typedef whose name is in the ignore set   *)
(* lies between the markers of the disabled block, everything printed for  *)
(* a typedef whose name is not in the ignore set lies outside of it, and   *)
(* no typedef name is printed in both places.                              *)
C10_IgnoredInDisabledBlock ==
    /\ \A i \in DOMAIN out :
          FromTypedef(i) => (InDisabledBlock(i) <=> out[i].td \in ignores)
    /\ pc = "done" =>
          \A i \in DOMAIN out :
              (FromTypedef(i) /\ out[i].td \in ignores)
                 => \E b \in (i + 1)..Len(out) : IsText(b, "*/")
    /\ \A i, j \in DOMAIN out :
          (FromTypedef(i) /\ FromTypedef(j) /\ out[i].td = out[j].td)
             => (InDisabledBlock(i) <=> InDisabledBlock(j))

\* a finished run that declared an ignored typedef and one that is not ignored
C10_Witness ==
    /\ pc = "done"
    /\ \E i, j \in DOMAIN out :
          /\ IsDeclaration(i) /\ FromTypedef(i) /\ out[i].td \in ignores
          /\ IsDeclaration(j) /\ FromTypedef(j) /\ out[j].td \notin ignores

-----------------------------------------------------------------------------
(* Reading the declarations of a function *)

IsFunction(d) == d.node = "Decl" /\ d.type.node = "FuncDecl"

ParamsOf(fn) == IF fn.type.args = None THEN << >> ELSE fn.type.args.params

IsVariadic(fn) ==
    /\ ParamsOf(fn) # << >>
    /\ ParamsOf(fn)[Len(ParamsOf(fn))] = EllipsisParam

IsProcOf(item, a) == item.decl = a /\ item.k = "proc"

\* the extern proc declarations printed for the a-th top-level declaration
ProcsOf(a) == SelectSeq(out, LAMBDA item : IsProcOf(item, a))

\* the parameters of a printed parameter list, given its separator
FormalsOf(proc, sep) == IF proc.args = << >> THEN << >> ELSE Split(proc.args, sep)

HasFormal(p) == p # EllipsisParam /\ toChapelType(p.type) # ""

\* the parameters of the C function that have a formal in the declarations
KeptParams(fn) == SelectSeq(ParamsOf(fn), HasFormal)

PointsTo(p, names) ==
    /\ p.type.type.node = "TypeDecl"
    /\ p.type.type.type.node = "IdentifierType"
    /\ p.type.type.type.names = names

\* p is a pointer to something else than a function or one of the excluded
\* types
PointerToOther(p, excluded) ==
    /\ p.type.node = "PtrDecl"
    /\ p.type.type.node # "FuncDecl"
    /\ \A names \in excluded : ~ PointsTo(p, names)

RefFormal(p) ==
    <<(IF "const" \in p.type.type.quals THEN "const ref " ELSE "ref ") \o p.name,
      " : ", toChapelType(p.type.type)>>

PtrFormal(p) ==
    <<p.name, " : ",
      (IF "const" \in p.type.type.quals THEN "c_ptrConst(" ELSE "c_ptr(")
         \o toChapelType(p.type.type) \o ")">>

\* the statement of C7 for the a-th declaration, given the pointee types
\* that are not passed by reference
TwoForms(a, procs, kept, excluded) ==
    /\ Len(procs) = IF \E i \in DOMAIN kept : PointerToOther(kept[i], excluded)
                    THEN 2 ELSE 1
    /\ \A i \in DOMAIN procs : procs[i].name = procs[1].name
    /\ \A i \in DOMAIN kept :
          PointerToOther(kept[i], excluded) =>
              /\ Len(FormalsOf(procs[1], ", ")) = Len(kept)
              /\ FormalsOf(procs[1], ", ")[i] = RefFormal(kept[i])
              /\ Len(procs) >= 2
              /\ Len(FormalsOf(procs[Len(procs)], ", ")) = Len(kept)
              /\ FormalsOf(procs[Len(procs)], ", ")[i] = PtrFormal(kept[i])

RefAndPointerForms(excluded) ==
    \A a \in DOMAIN ast :
        (IsFunction(ast[a]) /\ ~ IsVariadic(ast[a]) /\ ProcsOf(a) # << >>)
           => TwoForms(a, ProcsOf(a), KeptParams(ast[a]), excluded)

-----------------------------------------------------------------------------
(* C5 *)

\* the name under which the aggregate defined by the a-th declaration is
\* declared
EmittedAs(a) == IF ast[a].node = "Typedef" THEN ast[a].name
                ELSE DefinedAggregate(ast[a]).name

\* the run is past the a-th declaration, and no exception has ended it
Handled(a) ==
    \/ pc = "done"
    \/ pc = "typedefs" /\ ast[a].node = "Decl"
    \/ pc = "walk" /\ ast[a].node = "Decl" /\ pos > a

FieldsOf(a) == DefinedAggregate(ast[a]).decls.items

Unresolvable(field) ==
    field.node = "Decl" /\ toChapelType(field.type) \in {NoneStr, Raised}

(* C5: for every defined struct or union, if the type of a field cannot    *)
(* be resolved, no declaration of that aggregate is printed, and (when     *)
(* comments are printed) a diagnostic is.  (Stated of the runs that no     *)
(* exception ends.)                                                        *)
C5_AllOrNothing ==
    \A a \in DOMAIN ast :
        (/\ DefinedAggregate(ast[a]) # None
         /\ \E f \in DOMAIN FieldsOf(a) : Unresolvable(FieldsOf(a)[f]))
           => /\ \A i \in DOMAIN out : ~ (IsBody(i) /\ out[i].name = EmittedAs(a))
              /\ (Handled(a) /\ ~ noComments) => \E i \in DOMAIN out : IsComment(i)

-----------------------------------------------------------------------------
(* C6 *)

ReservedField(field) == field.node = "Decl" /\ field.name \in chapelKeywords

(* C6: for every defined struct or union whose name is not a reserved      *)
(* word, if the name of a field is a reserved word, the aggregate is       *)
(* printed with a body of zero fields, and (when comments are printed) a   *)
(* diagnostic is.  (Stated of the runs that no exception ends.)            *)
C6_ReservedFieldEmptiesBody ==
    \A a \in DOMAIN ast :
        (/\ DefinedAggregate(ast[a]) # None
         /\ DefinedAggregate(ast[a]).name \notin chapelKeywords
         /\ EmittedAs(a) \notin chapelKeywords
         /\ \E f \in DOMAIN FieldsOf(a) : ReservedField(FieldsOf(a)[f])
         /\ Handled(a))
           => /\ \E i \in DOMAIN out :
                    /\ IsBody(i) /\ out[i].name = EmittedAs(a)
                    /\ out[i].members = << >>
              /\ ~ noComments => \E i \in DOMAIN out : IsComment(i)

-----------------------------------------------------------------------------
(* C7 *)

\* C7 as stated: for every emitted function without an ellipsis, each
\* parameter that is a pointer to anything else than char, void or a
\* function is, in the first declaration, a ref formal of the pointee type
\* (const ref when the pointee is const) and, in a second declaration, a
\* c_ptr formal (c_ptrConst when the pointee is const); the function is
\* declared twice when the two parameter lists differ and once when not.
C7_RefThenPointer == RefAndPointerForms({<<"char">>, <<"void">>})

\* C7 as amended: the same, for each parameter that is a pointer to
\* anything else than char, unsigned char, void or a function.
C7_RefThenPointerButUnsignedChar ==
    RefAndPointerForms({<<"char">>, <<"unsigned", "char">>, <<"void">>})

\* a declared function with a pointer to const int among its parameters
C7_Witness ==
    /\ pc = "done"
    /\ IsFunction(ast[1]) /\ ~ IsVariadic(ast[1])
    /\ Len(ProcsOf(1)) = 2
    /\ \E i \in DOMAIN ParamsOf(ast[1]) :
          /\ ParamsOf(ast[1])[i].node = "Decl"
          /\ PointerToOther(ParamsOf(ast[1])[i], {<<"char">>, <<"unsigned", "char">>, <<"void">>})
          /\ "const" \in ParamsOf(ast[1])[i].type.type.quals

-----------------------------------------------------------------------------
(* C8 *)

HasMarker(proc) == \E i \in DOMAIN proc.args : proc.args[i] = VARARGS_STR

Front(seq) == SubSeq(seq, 1, Len(seq) - 1)

VariadicForms(procs) ==
    /\ Len(procs) >= 2
    /\ FormalsOf(procs[1], ", ")[Len(FormalsOf(procs[1], ", "))] = <<VARARGS_STR>>
    /\ \A i \in DOMAIN procs : HasMarker(procs[i]) <=> i < Len(procs)
    /\ FormalsOf(procs[Len(procs)], ",") = Front(FormalsOf(procs[1], ", "))
    /\ procs[Len(procs)].name = procs[1].name
    /\ procs[Len(procs)].ret = procs[1].ret

PlainForms(procs) ==
    /\ Len(procs) <= 2
    /\ \A i \in DOMAIN procs : ~ HasMarker(procs[i])
    /\ \A i, j \in DOMAIN procs : i # j => procs[i].args # procs[j].args

(* C8: for every emitted function whose parameter list ends with an        *)
(* ellipsis, the output holds the variadic form, whose parameter list      *)
(* ends with the marker, and exactly one declaration without the marker,   *)
(* of the same name and return type, whose parameters are those of the     *)
(* variadic form without the marker; a function without an ellipsis has    *)
(* no declaration with the marker and no two declarations with the same    *)
(* parameter list.                                                         *)
C8_EmptyVarargsOverload ==
    \A a \in DOMAIN ast :
        (IsFunction(ast[a]) /\ ProcsOf(a) # << >>)
           => IF IsVariadic(ast[a]) THEN VariadicForms(ProcsOf(a))
              ELSE PlainForms(ProcsOf(a))

\* a declared function with an ellipsis after a pointer parameter: the two
\* variadic forms and the overload
C8_Witness ==
    /\ pc = "done"
    /\ IsFunction(ast[1]) /\ IsVariadic(ast[1])
    /\ Len(ProcsOf(1)) = 3

-----------------------------------------------------------------------------
(* C11: from the moment the walk over the declarations is complete until   *)
(* the run ends, no step changes the typedef table or the set of found     *)
(* types.                                                                  *)
C11_TablesFrozenAfterWalk ==
    [][pc = "typedefs" => (typeDefs' = typeDefs /\ foundTypes' = foundTypes)]_vars

-----------------------------------------------------------------------------
(* C12 *)

\* the struct or union a field defines with a field list of its own, or None
NestedDefinition(field) ==
    IF field.node = "Decl" THEN getStructOrUnionDef(field) ELSE None

\* the field names of a field list, in the order of the declarations
FieldNames(fields) == [k \in DOMAIN fields |-> fields[k].name]

\* item i declares the struct or union nested: a body with its fields, under
\* its tag when it has one
DeclaresNested(i, nested) ==
    /\ IsBody(i)
    /\ nested.name # NoneStr => out[i].name = nested.name
    /\ FieldNames(out[i].members) = FieldNames(nested.decls.items)

\* every member is a declaration with a name that is not a reserved word, and
\* one of them defines a struct or union
PlainFieldsWithNested(fields) ==
    /\ \A k \in DOMAIN fields :
          fields[k].node = "Decl" /\ fields[k].name \notin chapelKeywords
    /\ \E k \in DOMAIN fields : NestedDefinition(fields[k]) # None

(* C12: for every defined struct or union that has nested struct or union  *)
(* definitions among its fields, anonymous ones included, each nested      *)
(* aggregate is declared before the containing one, and the body of the    *)
(* containing one lists one field per member, in declaration order.        *)
(* (Stated of the runs that no exception ends and of the field lists       *)
(* without a #pragma and without a reserved name.)                         *)
C12_NestedBeforeContaining ==
    \A a \in DOMAIN ast :
        (/\ DefinedAggregate(ast[a]) # None
         /\ EmittedAs(a) \notin chapelKeywords
         /\ PlainFieldsWithNested(FieldsOf(a))
         /\ Handled(a))
           => \E j \in DOMAIN out :
                 /\ IsBody(j) /\ out[j].name = EmittedAs(a)
                 /\ FieldNames(out[j].members) = FieldNames(FieldsOf(a))
                 /\ \A k \in DOMAIN FieldsOf(a) :
                       NestedDefinition(FieldsOf(a)[k]) # None
                          => \E i \in 1..(j - 1) :
                                DeclaresNested(i, NestedDefinition(FieldsOf(a)[k]))

-----------------------------------------------------------------------------
(* Inputs: the lines of a file, over the shapes of a line, before one      *)
(* declaration                                                             *)

MaxLines == 3

LineShapes ==
    {<<"#define", " ", "ANSWER", " ", "42">>,
     <<" ", "#define", " ", "ANSWER", " ", "7">>,
     <<"#define", " ", "OTHER", " ", "7">>,
     <<"#define", " ", "ANSWER">>,
     <<"#define", " ", "ANSWER", " ", "0x10">>,
     <<"#define", " ", "ANSWER", " ", "42", " ">>,
     <<"int", " ", "x;">>}

Files == UNION {[1..n -> LineShapes] : n \in 0..MaxLines}

InitDefines == \E f \in Files, d \in {VarV, TdC} : StartWith(f, <<d>>, {})

SpecDefines == InitDefines /\ [][Next]_vars

-----------------------------------------------------------------------------
(* C13 *)

\* the lines of the file that define the name as an integer literal
DefinesOf(name) == {i \in DOMAIN lines : Matches(lines[i]) /\ Group1(lines[i]) = name}

\* the places of the output that declare the constant name
ConstantsOf(name) ==
    {i \in DOMAIN out : out[i].k = "define" /\ out[i].name = name}

(* C13: once the scan of the file is over, the output holds exactly one    *)
(* declaration of the constant for every name the file has a matching      *)
(* #define line of, however many such lines the file has.                  *)
C13_DefineOnce ==
    pc # "defines" =>
        \A name \in Words :
            DefinesOf(name) # {} => Cardinality(ConstantsOf(name)) = 1

====
